---- MODULE Spec2Model ----
(***************************************************************************)
(* A model of MachineInstr (lib/CodeGen/MachineInstr.cpp): one machine     *)
(* instruction, its operand vector (explicit operands followed by the      *)
(* implicit references), the set of registers it uses, and the operations  *)
(* that construct, mutate, substitute and print it.                        *)
(*                                                                         *)
(* Operand indices are 0-based as in the source; operands[i + 1] is the    *)
(* source's operands[i].  A failed assert() aborts the process: the state  *)
(* is left as it was and pc becomes "aborted", after which nothing runs.   *)
(***************************************************************************)
EXTENDS Integers, Sequences, FiniteSets, TLC

(***************************************************************************)
(* Bounds of the model.                                                    *)
(***************************************************************************)
MaxCalls == 2          \* mutating calls explored after construction
MaxOperands == 2       \* explicit operands of the instructions drawn for substitution and printing
MaxImplicitRefs == 1   \* implicit references of the instructions drawn

(***************************************************************************)
(* Values (pointers to Value): NullVal is the null pointer, the others are *)
(* distinct IR values.  A value has a name or not, is a label (Function or *)
(* BasicBlock) or not; both are properties of the external IR.             *)
(***************************************************************************)
NullVal == 0
Values == {NullVal, 1, 2}
SetterValues == {1}                  \* values handed to the setters
hasName(v) == v = 1
isLabel(v) == v = 2

OperandCounts == {0, 1, 2}           \* operand counts handed to a ctor or replace
Regs == {0, 1}                       \* register numbers handed to the setters
FirstVirtualRegister == 1            \* MRegisterInfo::FirstVirtualRegister (set by the target)
ImmedVals == {-1}                    \* literals handed to SetMachineOperandConst

(***************************************************************************)
(* MachineOperand::MachineOperandType and the flag bits.                   *)
(***************************************************************************)
MO_VirtualRegister == "MO_VirtualRegister"
MO_MachineRegister == "MO_MachineRegister"
MO_CCRegister == "MO_CCRegister"
MO_SignExtendedImmed == "MO_SignExtendedImmed"
MO_UnextendedImmed == "MO_UnextendedImmed"
MO_PCRelativeDisp == "MO_PCRelativeDisp"
OperandTypes == {MO_VirtualRegister, MO_MachineRegister, MO_CCRegister,
                 MO_SignExtendedImmed, MO_UnextendedImmed, MO_PCRelativeDisp}
ImmedTypes == {MO_SignExtendedImmed, MO_UnextendedImmed}

DEFFLAG == "DEFFLAG"
DEFUSEFLAG == "DEFUSEFLAG"
HIFLAG32 == "HIFLAG32"
LOFLAG32 == "LOFLAG32"
HIFLAG64 == "HIFLAG64"
LOFLAG64 == "LOFLAG64"
AddrFlags == {HIFLAG32, LOFLAG32, HIFLAG64, LOFLAG64}

(***************************************************************************)
(* TargetInstrDescriptors: the per-target table, indexed by opcode.        *)
(* Opcode 0 has two operands with the result at 0, opcode 1 has a variable *)
(* number of operands and no result, opcode 2 has one operand, no result.  *)
(***************************************************************************)
Opcodes == {0, 1, 2}
TargetInstrDescriptors ==
    [o \in Opcodes |->
        CASE o = 0 -> [numOperands |-> 2, resultPos |-> 0]
          [] o = 1 -> [numOperands |-> -1, resultPos |-> -1]
          [] o = 2 -> [numOperands |-> 1, resultPos |-> -1]]

VARIABLES
    pc,               \* "new" before construction, "live", or "aborted"
    opCode,           \* MachineInstr::opCode
    operands,         \* MachineInstr::operands: explicit operands, then implicit refs
    numImplicitRefs,  \* MachineInstr::numImplicitRefs
    regsUsed,         \* MachineInstr::regsUsed
    ret,              \* the most recent call: its name, return value and output
    calls             \* number of mutating calls made since construction

vars == <<pc, opCode, operands, numImplicitRefs, regsUsed, ret, calls>>

(***************************************************************************)
(* MachineOperand: the default-constructed operand and its accessors.      *)
(***************************************************************************)
DefaultOperand ==
    [opType |-> MO_VirtualRegister, value |-> NullVal, immedVal |-> 0,
     regNum |-> -1, flags |-> {}]

opIsDef(mo) == DEFFLAG \in mo.flags
opIsDefAndUse(mo) == DEFUSEFLAG \in mo.flags
markDef(mo) == [mo EXCEPT !.flags = @ \cup {DEFFLAG}]
markDefAndUse(mo) == [mo EXCEPT !.flags = @ \cup {DEFUSEFLAG}]
hasAllocatedReg(mo) ==
    /\ mo.regNum >= 0
    /\ mo.opType \in {MO_VirtualRegister, MO_CCRegister, MO_MachineRegister}

Fill(n) == [k \in 1..n |-> DefaultOperand]

getNumOperands == Len(operands) - numImplicitRefs
getNumImplicitRefs == numImplicitRefs
resultPos == TargetInstrDescriptors[opCode].resultPos

\* ret: the call's name, its index and isdef (or defsOnly) arguments (-1, FALSE
\* when it has none), the values oldVal and newVal of a substitution, its return
\* value (-1: aborted) and the text it wrote
Result(name, i, d, n) ==
    [op |-> name, i |-> i, d |-> d, a |-> NullVal, b |-> NullVal, n |-> n,
     text |-> <<>>]

\* A failed assert: the process aborts with the instruction as it was.
Abort(name, i, d) ==
    /\ pc' = "aborted"
    /\ ret' = Result(name, i, d, -1)
    /\ UNCHANGED <<opCode, operands, numImplicitRefs, regsUsed, calls>>

Live == pc = "live" /\ calls < MaxCalls

(***************************************************************************)
(* Constructors.                                                           *)
(***************************************************************************)
\* MachineInstr(MachineOpCode): fixed number of operands
CtorFixed(opc) ==
    /\ pc = "new"
    /\ opCode' = opc
    /\ operands' = Fill(IF TargetInstrDescriptors[opc].numOperands >= 0
                         THEN TargetInstrDescriptors[opc].numOperands ELSE 0)
    /\ numImplicitRefs' = 0
    /\ regsUsed' = {}
    /\ calls' = 0
    /\ ret' = Result("CtorFixed", -1, FALSE, IF TargetInstrDescriptors[opc].numOperands >= 0
                                   THEN 0 ELSE -1)
    /\ pc' = IF TargetInstrDescriptors[opc].numOperands >= 0
              THEN "live" ELSE "aborted"

\* MachineInstr(MachineOpCode, unsigned numOperands): variable number of operands
CtorSized(OpCode, numOperands) ==
    /\ pc = "new"
    /\ opCode' = OpCode
    /\ operands' = Fill(numOperands)
    /\ numImplicitRefs' = 0
    /\ regsUsed' = {}
    /\ calls' = 0
    /\ ret' = Result("CtorSized", -1, FALSE, 0)
    /\ pc' = "live"

\* MachineInstr(MachineOpCode, unsigned numOperands, bool, bool): reserve only
CtorReserve(Opcode, numOperands) ==
    /\ pc = "new"
    /\ opCode' = Opcode
    /\ operands' = <<>>
    /\ numImplicitRefs' = 0
    /\ regsUsed' = {}
    /\ calls' = 0
    /\ ret' = Result("CtorReserve", -1, FALSE, 0)
    /\ pc' = "live"

(***************************************************************************)
(* OperandsComplete                                                        *)
(***************************************************************************)
\* mutant: the count must exceed the declared number
OperandsComplete_Strict ==
    LET NumOperands == TargetInstrDescriptors[opCode].numOperands
    IN  IF NumOperands >= 0 /\ getNumOperands > NumOperands THEN TRUE ELSE FALSE

OperandsComplete ==
    LET NumOperands == TargetInstrDescriptors[opCode].numOperands
    IN  IF NumOperands >= 0 /\ getNumOperands >= NumOperands THEN TRUE ELSE FALSE

(***************************************************************************)
(* replace                                                                 *)
(***************************************************************************)
\* mutant: no assert on the implicit references
replace_NoAssert(Opcode, numOperands) ==
    /\ Live
    /\ opCode' = Opcode
    /\ operands' = Fill(numOperands) \o SubSeq(operands, getNumOperands + 1, Len(operands))
    /\ ret' = Result("replace", -1, FALSE, 0)
    /\ calls' = calls + 1
    /\ UNCHANGED <<pc, numImplicitRefs, regsUsed>>

\* mutant: the used registers are reset with the operands
replace_ClearsRegs(Opcode, numOperands) ==
    /\ Live
    /\ IF ~(getNumImplicitRefs = 0)
       THEN Abort("replace", -1, FALSE)
       ELSE /\ opCode' = Opcode
            /\ operands' = Fill(numOperands)
            /\ regsUsed' = {}
            /\ ret' = Result("replace", -1, FALSE, 0)
            /\ calls' = calls + 1
            /\ UNCHANGED <<pc, numImplicitRefs>>

replace(Opcode, numOperands) ==
    /\ Live
    /\ IF ~(getNumImplicitRefs = 0)
       THEN Abort("replace", -1, FALSE)
       ELSE /\ opCode' = Opcode
            /\ operands' = Fill(numOperands)
            /\ ret' = Result("replace", -1, FALSE, 0)
            /\ calls' = calls + 1
            /\ UNCHANGED <<pc, numImplicitRefs, regsUsed>>

(***************************************************************************)
(* The operand setters.  Each XxxOperand is what the setter stores into    *)
(* operands[i]; the action adds the asserts and the instruction-level      *)
(* effects.                                                                *)
(***************************************************************************)
\* mutant: the descriptor's result position is not consulted
SetValOperand_IgnoresResultPos(mo, opc, i, opType, V, isdef, isDefAndUse) ==
    LET m1 == [mo EXCEPT !.opType = opType, !.value = V, !.regNum = -1,
                         !.flags = {}]
        m2 == IF isdef THEN markDef(m1) ELSE m1
    IN  IF isDefAndUse THEN markDefAndUse(m2) ELSE m2

SetValOperand(mo, opc, i, opType, V, isdef, isDefAndUse) ==
    LET m1 == [mo EXCEPT !.opType = opType, !.value = V, !.regNum = -1,
                         !.flags = {}]
        m2 == IF isdef \/ TargetInstrDescriptors[opc].resultPos = i
              THEN markDef(m1) ELSE m1
    IN  IF isDefAndUse THEN markDefAndUse(m2) ELSE m2

SetMachineOperandVal(i, opType, V, isdef, isDefAndUse) ==
    /\ Live
    /\ IF ~(i < Len(operands))
       THEN Abort("SetMachineOperandVal", i, isdef)
       ELSE /\ operands' = [operands EXCEPT ![i + 1] =
                   SetValOperand(@, opCode, i, opType, V, isdef, isDefAndUse)]
            /\ ret' = Result("SetMachineOperandVal", i, isdef, 0)
            /\ calls' = calls + 1
            /\ UNCHANGED <<pc, opCode, numImplicitRefs, regsUsed>>

SetConstOperand(mo, operandType, intValue) ==
    [mo EXCEPT !.opType = operandType, !.value = NullVal,
               !.immedVal = intValue, !.regNum = -1, !.flags = {}]

\* mutant: the result position is not checked
SetMachineOperandConst_NoResultCheck(i, operandType, intValue) ==
    /\ Live
    /\ IF ~(i < getNumOperands)
       THEN Abort("SetMachineOperandConst", i, FALSE)
       ELSE /\ operands' = [operands EXCEPT ![i + 1] =
                   SetConstOperand(@, operandType, intValue)]
            /\ ret' = Result("SetMachineOperandConst", i, FALSE, 0)
            /\ calls' = calls + 1
            /\ UNCHANGED <<pc, opCode, numImplicitRefs, regsUsed>>

SetMachineOperandConst(i, operandType, intValue) ==
    /\ Live
    /\ IF ~(i < getNumOperands) \/ ~(resultPos # i)
       THEN Abort("SetMachineOperandConst", i, FALSE)
       ELSE /\ operands' = [operands EXCEPT ![i + 1] =
                   SetConstOperand(@, operandType, intValue)]
            /\ ret' = Result("SetMachineOperandConst", i, FALSE, 0)
            /\ calls' = calls + 1
            /\ UNCHANGED <<pc, opCode, numImplicitRefs, regsUsed>>

insertUsedReg(used, regNum) == used \cup {regNum}

SetRegOperand(mo, opc, i, regNum, isdef) ==
    LET m1 == [mo EXCEPT !.opType = MO_MachineRegister, !.value = NullVal,
                         !.regNum = regNum, !.flags = {}]
    IN  IF isdef \/ TargetInstrDescriptors[opc].resultPos = i
        THEN markDef(m1) ELSE m1

SetMachineOperandReg(i, regNum, isdef) ==
    /\ Live
    /\ IF ~(i < getNumOperands)
       THEN Abort("SetMachineOperandReg", i, isdef)
       ELSE /\ operands' = [operands EXCEPT ![i + 1] =
                   SetRegOperand(@, opCode, i, regNum, isdef)]
            /\ regsUsed' = insertUsedReg(regsUsed, regNum)
            /\ ret' = Result("SetMachineOperandReg", i, isdef, 0)
            /\ calls' = calls + 1
            /\ UNCHANGED <<pc, opCode, numImplicitRefs>>

\* MachineOperand::setRegForValue: only a register-kind operand takes a register
setRegForValueOK(mo) ==
    mo.opType \in {MO_VirtualRegister, MO_CCRegister, MO_MachineRegister}
setRegForValue(mo, reg) == [mo EXCEPT !.regNum = reg]

SetRegForOperand(i, regNum) ==
    /\ Live
    /\ IF ~(i < getNumOperands)
       THEN Abort("SetRegForOperand", i, FALSE)
       ELSE IF ~setRegForValueOK(operands[i + 1])
       THEN Abort("SetRegForOperand", i, FALSE)
       ELSE /\ operands' = [operands EXCEPT ![i + 1] = setRegForValue(@, regNum)]
            /\ regsUsed' = insertUsedReg(regsUsed, regNum)
            /\ ret' = Result("SetRegForOperand", i, FALSE, 0)
            /\ calls' = calls + 1
            /\ UNCHANGED <<pc, opCode, numImplicitRefs>>

(***************************************************************************)
(* addImplicitRef: an implicit reference is appended after the operands.   *)
(***************************************************************************)
ImplicitOperand(V, isDef, isDefAndUse) ==
    LET m1 == [DefaultOperand EXCEPT !.value = V]
        m2 == IF isDef THEN markDef(m1) ELSE m1
    IN  IF isDefAndUse THEN markDefAndUse(m2) ELSE m2

addImplicitRef(V, isDef, isDefAndUse) ==
    /\ Live
    /\ numImplicitRefs' = numImplicitRefs + 1
    /\ operands' = Append(operands, ImplicitOperand(V, isDef, isDefAndUse))
    /\ ret' = Result("addImplicitRef", -1, isDef, 0)
    /\ calls' = calls + 1
    /\ UNCHANGED <<pc, opCode, regsUsed>>

(***************************************************************************)
(* substituteValue                                                         *)
(***************************************************************************)
\* val_op_iterator visits the explicit operands that carry a symbolic reference
IsValOp(mo) ==
    /\ mo.opType \in {MO_VirtualRegister, MO_CCRegister, MO_PCRelativeDisp}
    /\ mo.value # NullVal

getImplicitOp(ops, nImp, i) == ops[Len(ops) - nImp + i + 1]
getImplicitRef(ops, nImp, i) == getImplicitOp(ops, nImp, i).value
implicitRefIsDefined(ops, nImp, i) == opIsDef(getImplicitOp(ops, nImp, i))
implicitRefIsDefinedAndUsed(ops, nImp, i) == opIsDefAndUse(getImplicitOp(ops, nImp, i))

\* mutant: defsOnly is not consulted for the explicit operands
RECURSIVE SubstOperands_IgnoresDefsOnly(_, _, _, _, _, _)
SubstOperands_IgnoresDefsOnly(st, O, E, oldVal, newVal, defsOnly) ==
    IF O >= E THEN st
    ELSE LET mo == st.ops[O + 1]
             hit == IsValOp(mo) /\ mo.value = oldVal
             nxt == IF hit
                    THEN [ops |-> [st.ops EXCEPT ![O + 1].value = newVal],
                          numSubst |-> st.numSubst + 1]
                    ELSE st
         IN  SubstOperands_IgnoresDefsOnly(nxt, O + 1, E, oldVal, newVal, defsOnly)

\* mutant: a substituted operand is also marked as a def
RECURSIVE SubstOperands_MarksDef(_, _, _, _, _, _)
SubstOperands_MarksDef(st, O, E, oldVal, newVal, defsOnly) ==
    IF O >= E THEN st
    ELSE LET mo == st.ops[O + 1]
             hit == /\ IsValOp(mo)
                    /\ mo.value = oldVal
                    /\ (~defsOnly \/ opIsDef(mo))
             nxt == IF hit
                    THEN [ops |-> [st.ops EXCEPT ![O + 1] =
                                      markDef([@ EXCEPT !.value = newVal])],
                          numSubst |-> st.numSubst + 1]
                    ELSE st
         IN  SubstOperands_MarksDef(nxt, O + 1, E, oldVal, newVal, defsOnly)

\* the first loop, from explicit operand O on; st = [ops, numSubst]
RECURSIVE SubstOperands(_, _, _, _, _, _)
SubstOperands(st, O, E, oldVal, newVal, defsOnly) ==
    IF O >= E THEN st
    ELSE LET mo == st.ops[O + 1]
             hit == /\ IsValOp(mo)
                    /\ mo.value = oldVal
                    /\ (~defsOnly \/ opIsDef(mo))
             nxt == IF hit
                    THEN [ops |-> [st.ops EXCEPT ![O + 1].value = newVal],
                          numSubst |-> st.numSubst + 1]
                    ELSE st
         IN  SubstOperands(nxt, O + 1, E, oldVal, newVal, defsOnly)

\* the second loop, from implicit reference i on
RECURSIVE SubstImplicit(_, _, _, _, _, _)
SubstImplicit(st, i, N, oldVal, newVal, defsOnly) ==
    IF i >= N THEN st
    ELSE LET hit == /\ getImplicitRef(st.ops, N, i) = oldVal
                    /\ (~defsOnly \/ implicitRefIsDefined(st.ops, N, i))
             nxt == IF hit
                    THEN [ops |-> [st.ops EXCEPT ![Len(st.ops) - N + i + 1].value = newVal],
                          numSubst |-> st.numSubst + 1]
                    ELSE st
         IN  SubstImplicit(nxt, i + 1, N, oldVal, newVal, defsOnly)

SubstResult(ops, nImp, oldVal, newVal, defsOnly) ==
    SubstImplicit(
        SubstOperands([ops |-> ops, numSubst |-> 0], 0, Len(ops) - nImp,
                      oldVal, newVal, defsOnly),
        0, nImp, oldVal, newVal, defsOnly)

substituteValue(oldVal, newVal, defsOnly) ==
    /\ Live
    /\ LET r == SubstResult(operands, numImplicitRefs, oldVal, newVal, defsOnly)
       IN  /\ operands' = r.ops
           /\ ret' = [Result("substituteValue", -1, defsOnly, r.numSubst)
                         EXCEPT !.a = oldVal, !.b = newVal]
    /\ calls' = calls + 1
    /\ UNCHANGED <<pc, opCode, numImplicitRefs, regsUsed>>

(***************************************************************************)
(* Printing.  A text is a sequence of tokens <<string, number>>: a piece   *)
(* of literal text with the number written after it (0 when none).         *)
(***************************************************************************)
Tok(str, n) == <<str, n>>
\* The conversions wrap; the model's machine word has 16 bits, so that its
\* numbers stay within those of the model checker.
WordRange == 2 ^ 16
ToUnsigned(r) == r % WordRange                                  \* int to unsigned
ToLong(x) == ((x + WordRange \div 2) % WordRange) - WordRange \div 2   \* (long) of an int64_t

\* OutputValue; a named value prints its name, any other its address
OutputValue(val) ==
    IF val # NullVal /\ hasName(val)
    THEN <<Tok("(val name)", val)>>
    ELSE <<Tok("(val addr)", val)>>

\* OutputReg; MRI is whether register information is at hand
OutputReg(RegNo, MRI) ==
    IF MRI
    THEN IF RegNo < FirstVirtualRegister
         THEN <<Tok("%name", RegNo)>>
         ELSE <<Tok("%reg#", RegNo)>>
    ELSE <<Tok("%mreg()", RegNo)>>

AddrPrefix(mo) ==
    IF HIFLAG32 \in mo.flags THEN <<Tok("%lm(", 0)>>
    ELSE IF LOFLAG32 \in mo.flags THEN <<Tok("%lo(", 0)>>
    ELSE IF HIFLAG64 \in mo.flags THEN <<Tok("%hh(", 0)>>
    ELSE IF LOFLAG64 \in mo.flags THEN <<Tok("%hm(", 0)>>
    ELSE <<>>

\* the MO_PCRelativeDisp case of both printers; g stands for what reading
\* through a null value yields
OutputDisp(opVal, g) ==
    LET lbl == IF opVal = NullVal THEN g ELSE isLabel(opVal)
        nm == IF opVal = NullVal THEN g ELSE hasName(opVal)
    IN  <<Tok(IF lbl THEN "%disp(label " ELSE "%disp(addr-of-val ", 0),
          Tok(IF nm THEN "name" ELSE "addr", opVal),
          Tok(")", 0)>>

\* static print(const MachineOperand &, std::ostream &, const TargetMachine &)
printOperand(MO, MRI, g) ==
    LET CloseParen == AddrPrefix(MO) # <<>>
        body ==
            CASE MO.opType = MO_VirtualRegister ->
                    (IF MO.value # NullVal
                     THEN <<Tok("%reg", 0)>> \o OutputValue(MO.value)
                          \o (IF hasAllocatedReg(MO) THEN <<Tok("==", 0)>> ELSE <<>>)
                     ELSE <<>>)
                    \o (IF hasAllocatedReg(MO)
                        THEN OutputReg(ToUnsigned(MO.regNum), MRI) ELSE <<>>)
              [] MO.opType = MO_CCRegister ->
                    <<Tok("%ccreg", 0)>> \o OutputValue(MO.value)
                    \o (IF hasAllocatedReg(MO)
                        THEN <<Tok("==", 0)>> \o OutputReg(ToUnsigned(MO.regNum), MRI)
                        ELSE <<>>)
              [] MO.opType = MO_MachineRegister ->
                    OutputReg(ToUnsigned(MO.regNum), MRI)
              [] MO.opType = MO_SignExtendedImmed -> <<Tok("imm", ToLong(MO.immedVal))>>
              [] MO.opType = MO_UnextendedImmed -> <<Tok("imm", ToLong(MO.immedVal))>>
              [] MO.opType = MO_PCRelativeDisp -> OutputDisp(MO.value, g)
    IN  AddrPrefix(MO) \o body \o (IF CloseParen THEN <<Tok(")", 0)>> ELSE <<>>)

\* operator<<(std::ostream &, const MachineOperand &)
outputOperand(mop, g) ==
    LET body ==
            CASE mop.opType = MO_VirtualRegister ->
                    <<Tok("%reg", 0)>> \o OutputValue(mop.value)
                    \o (IF hasAllocatedReg(mop)
                        THEN <<Tok("==", 0)>> \o OutputReg(ToUnsigned(mop.regNum), FALSE)
                        ELSE <<>>)
              [] mop.opType = MO_CCRegister ->
                    <<Tok("%ccreg", 0)>> \o OutputValue(mop.value)
                    \o (IF hasAllocatedReg(mop)
                        THEN <<Tok("==", 0)>> \o OutputReg(ToUnsigned(mop.regNum), FALSE)
                        ELSE <<>>)
              [] mop.opType = MO_MachineRegister ->
                    OutputReg(ToUnsigned(mop.regNum), FALSE)
              [] mop.opType = MO_SignExtendedImmed -> <<Tok("imm", ToLong(mop.immedVal))>>
              [] mop.opType = MO_UnextendedImmed -> <<Tok("imm", ToLong(mop.immedVal))>>
              [] mop.opType = MO_PCRelativeDisp -> OutputDisp(mop.value, g)
    IN  AddrPrefix(mop) \o body
        \o (IF mop.flags \cap AddrFlags # {} THEN <<Tok(")", 0)>> ELSE <<>>)

\* the operand loop of MachineInstr::print, from operand i on
RECURSIVE printOperands(_, _, _, _, _)
printOperands(ops, i, e, MRI, g) ==
    IF i = e THEN <<>>
    ELSE <<Tok("\t", 0)>> \o printOperand(ops[i + 1], MRI, g)
         \o (IF opIsDefAndUse(ops[i + 1]) THEN <<Tok("<def&use>", 0)>>
             ELSE IF opIsDef(ops[i + 1]) THEN <<Tok("<def>", 0)>>
             ELSE <<>>)
         \o printOperands(ops, i + 1, e, MRI, g)

\* the implicit reference loop of MachineInstr::print
RECURSIVE printImplicitRefs(_, _, _, _)
printImplicitRefs(ops, nImp, i, e) ==
    IF i = e THEN <<>>
    ELSE <<Tok("\t", 0)>> \o OutputValue(getImplicitRef(ops, nImp, i))
         \o (IF implicitRefIsDefinedAndUsed(ops, nImp, i) THEN <<Tok("<def&use>", 0)>>
             ELSE IF implicitRefIsDefined(ops, nImp, i) THEN <<Tok("<def>", 0)>>
             ELSE <<>>)
         \o printImplicitRefs(ops, nImp, i + 1, e)

\* the text of MachineInstr::print(std::ostream &, const TargetMachine &)
printText(opc, ops, nImp, MRI, g) ==
    <<Tok("TM.getName", opc)>>
    \o printOperands(ops, 0, Len(ops) - nImp, MRI, g)
    \o (IF nImp # 0
        THEN <<Tok("\tImplicitRefs: ", 0)>> \o printImplicitRefs(ops, nImp, 0, nImp)
        ELSE <<>>)
    \o <<Tok("\n", 0)>>

\* the operand loop of operator<<(std::ostream &, const MachineInstr &)
RECURSIVE outputOperands(_, _, _, _)
outputOperands(ops, i, N, g) ==
    IF i >= N THEN <<>>
    ELSE <<Tok("\t", 0)>> \o outputOperand(ops[i + 1], g)
         \o (IF opIsDef(ops[i + 1]) THEN <<Tok("*", 0)>> ELSE <<>>)
         \o (IF opIsDefAndUse(ops[i + 1]) THEN <<Tok("*", 0)>> ELSE <<>>)
         \o outputOperands(ops, i + 1, N, g)

\* its implicit reference loop
RECURSIVE outputImplicitRefs(_, _, _, _)
outputImplicitRefs(ops, nImp, z, NumOfImpRefs) ==
    IF z >= NumOfImpRefs THEN <<>>
    ELSE OutputValue(getImplicitRef(ops, nImp, z))
         \o (IF implicitRefIsDefined(ops, nImp, z) THEN <<Tok("*", 0)>> ELSE <<>>)
         \o (IF implicitRefIsDefinedAndUsed(ops, nImp, z) THEN <<Tok("*", 0)>> ELSE <<>>)
         \o <<Tok("\t", 0)>>
         \o outputImplicitRefs(ops, nImp, z + 1, NumOfImpRefs)

\* the text of operator<<(std::ostream &, const MachineInstr &)
outputText(opc, ops, nImp, g) ==
    <<Tok("Descriptor.Name", opc)>>
    \o outputOperands(ops, 0, Len(ops) - nImp, g)
    \o (IF nImp > 0
        THEN <<Tok("\tImplicit: ", 0)>> \o outputImplicitRefs(ops, nImp, 0, nImp)
        ELSE <<>>)
    \o <<Tok("\n", 0)>>

\* printing an MO_PCRelativeDisp operand reads through its value
ReadsNull(ops, nImp) ==
    \E k \in 1..(Len(ops) - nImp) :
        ops[k].opType = MO_PCRelativeDisp /\ ops[k].value = NullVal

Printed(name, txt) == [Result(name, -1, FALSE, 0) EXCEPT !.text = txt]

\* MachineInstr::print(OS, TM); reading through a null value may also crash
print(MRI, g) ==
    /\ pc = "live"
    /\ \/ /\ ret' = Printed("print", printText(opCode, operands, numImplicitRefs, MRI, g))
          /\ UNCHANGED <<pc, opCode, operands, numImplicitRefs, regsUsed, calls>>
       \/ /\ ReadsNull(operands, numImplicitRefs)
          /\ Abort("print", -1, FALSE)

\* operator<<(os, minstr), and dump()
output(g) ==
    /\ pc = "live"
    /\ \/ /\ ret' = Printed("operator<<", outputText(opCode, operands, numImplicitRefs, g))
          /\ UNCHANGED <<pc, opCode, operands, numImplicitRefs, regsUsed, calls>>
       \/ /\ ReadsNull(operands, numImplicitRefs)
          /\ Abort("operator<<", -1, FALSE)

(***************************************************************************)
(* The instruction under every sequence of operations.                     *)
(***************************************************************************)
Init ==
    /\ pc = "new"
    /\ opCode = 0
    /\ operands = <<>>
    /\ numImplicitRefs = 0
    /\ regsUsed = {}
    /\ ret = Result("none", -1, FALSE, 0)
    /\ calls = 0

Construct ==
    \/ \E o \in Opcodes : CtorFixed(o)
    \/ \E o \in Opcodes, n \in OperandCounts : CtorSized(o, n)
    \/ \E o \in Opcodes, n \in OperandCounts : CtorReserve(o, n)

Next ==
    \/ Construct
    \/ \E o \in Opcodes, n \in OperandCounts : replace(o, n)
    \/ \E i \in 0..Len(operands), t \in OperandTypes, V \in SetterValues,
          d \in BOOLEAN, du \in BOOLEAN : SetMachineOperandVal(i, t, V, d, du)
    \/ \E i \in 0..Len(operands), t \in ImmedTypes, c \in ImmedVals :
          SetMachineOperandConst(i, t, c)
    \/ \E i \in 0..Len(operands), r \in Regs, d \in BOOLEAN :
          SetMachineOperandReg(i, r, d)
    \/ \E i \in 0..Len(operands), r \in Regs : SetRegForOperand(i, r)
    \/ \E V \in SetterValues, d \in BOOLEAN, du \in BOOLEAN : addImplicitRef(V, d, du)
    \/ \E a \in {NullVal, 1}, b \in {NullVal, 1}, d \in BOOLEAN : substituteValue(a, b, d)

Spec == Init /\ [][Next]_vars

(***************************************************************************)
(* Properties of the instruction under every sequence of operations.       *)
(***************************************************************************)
\* def_use as the printing code reads the flags
DefUse(mo) ==
    IF opIsDefAndUse(mo) THEN "DefAndUse" ELSE IF opIsDef(mo) THEN "Def" ELSE "Use"

ExplicitIdx == 1..getNumOperands

\* C3: in every reachable state, no explicit operand whose kind is
\* MO_SignExtendedImmed or MO_UnextendedImmed has def_use = Def.
C3_NoImmediateIsDef ==
    pc = "live" =>
        \A k \in ExplicitIdx :
            operands[k].opType \in ImmedTypes => DefUse(operands[k]) # "Def"

\* C4: SetMachineOperandConst at the descriptor's result position aborts, for
\* every kind and literal, and leaves operands, opCode and regsUsed as they were.
C4_ImmediateAtResultRejected ==
    [][(ret'.op = "SetMachineOperandConst" /\ ret'.i = resultPos) =>
          /\ pc' = "aborted"
          /\ operands' = operands
          /\ opCode' = opCode
          /\ regsUsed' = regsUsed]_vars

C4_Witness ==
    /\ pc = "aborted"
    /\ ret.op = "SetMachineOperandConst"
    /\ ret.i = resultPos
    /\ ret.i < getNumOperands

\* C5: regsUsed only grows, and every register given to a successful
\* SetMachineOperandReg or SetRegForOperand is in it from then on.
C5_UsedRegsOnlyGrow ==
    [][/\ regsUsed \subseteq regsUsed'
       /\ (ret'.op \in {"SetMachineOperandReg", "SetRegForOperand"} /\ pc' = "live") =>
             operands'[ret'.i + 1].regNum \in regsUsed']_vars

\* a register is still reported after replace has reset the operands
C5_Witness ==
    /\ pc = "live"
    /\ ret.op = "replace"
    /\ regsUsed # {}
    /\ \A k \in 1..Len(operands) : operands[k] = DefaultOperand

\* C6: replace aborts and changes nothing while implicit references exist;
\* otherwise it sets the opcode and leaves exactly numOperands default operands.
C6_Replace ==
    [][\A o \in Opcodes, n \in OperandCounts :
          replace(o, n) =>
              IF numImplicitRefs > 0
              THEN /\ pc' = "aborted"
                   /\ UNCHANGED <<opCode, operands, numImplicitRefs, regsUsed>>
              ELSE /\ pc' = "live"
                   /\ opCode' = o
                   /\ Len(operands') = n
                   /\ \A k \in 1..n : operands'[k] = DefaultOperand]_vars

C6_Witness ==
    /\ pc = "aborted"
    /\ ret.op = "replace"
    /\ numImplicitRefs > 0

\* C7: after SetMachineOperandVal(i, t, V, isdef, false) or
\* SetMachineOperandReg(i, r, isdef) on an explicit operand, that operand is a
\* def iff isdef or i is the result position, and is a use otherwise; a value
\* operand has no allocated register, and the register is in regsUsed.
C7_DefIffFlagOrResultPos ==
    (/\ pc = "live"
     /\ ret.op \in {"SetMachineOperandVal", "SetMachineOperandReg"}
     /\ ret.i < getNumOperands
     /\ ~opIsDefAndUse(operands[ret.i + 1])) =>
        LET mo == operands[ret.i + 1]
        IN  /\ opIsDef(mo) <=> (ret.d \/ ret.i = resultPos)
            /\ DefUse(mo) = IF ret.d \/ ret.i = resultPos THEN "Def" ELSE "Use"
            /\ ret.op = "SetMachineOperandVal" => ~hasAllocatedReg(mo)
            /\ ret.op = "SetMachineOperandReg" => mo.regNum \in regsUsed

\* an operand set at the result position with isdef = false is a def
C7_Witness ==
    /\ pc = "live"
    /\ ret.op = "SetMachineOperandVal"
    /\ ret.i = resultPos
    /\ ret.d = FALSE
    /\ ret.i < getNumOperands
    /\ opIsDef(operands[ret.i + 1])
    /\ ~hasAllocatedReg(operands[ret.i + 1])

\* C8: the fixed-arity constructor of an opcode declaring n >= 0 operands
\* leaves n operands and a complete operand list; the list is complete
\* exactly when the declared count is non-negative and reached.
C8_OperandsComplete ==
    /\ [][\A o \in Opcodes :
            (CtorFixed(o) /\ TargetInstrDescriptors[o].numOperands >= 0) =>
                /\ pc' = "live"
                /\ Len(operands') - numImplicitRefs' = TargetInstrDescriptors[o].numOperands
                /\ OperandsComplete']_vars
    /\ [](pc = "live" =>
            (OperandsComplete <=>
                /\ TargetInstrDescriptors[opCode].numOperands >= 0
                /\ Len(operands) - numImplicitRefs >=
                       TargetInstrDescriptors[opCode].numOperands))

C8_Witness ==
    /\ pc = "live"
    /\ ret.op = "CtorFixed"
    /\ getNumOperands = 2
    /\ OperandsComplete

\* the operand list is incomplete after replace to fewer operands than declared
C8_WitnessIncomplete ==
    /\ pc = "live"
    /\ ret.op = "replace"
    /\ TargetInstrDescriptors[opCode].numOperands > getNumOperands
    /\ ~OperandsComplete

(***************************************************************************)
(* substituteValue on instructions built by the constructor for a variable *)
(* number of operands (opcode 1), the setters and addImplicitRef.          *)
(***************************************************************************)
SubstOperandChoices ==
    {DefaultOperand, SetConstOperand(DefaultOperand, MO_SignExtendedImmed, -1)}
    \cup {SetValOperand(DefaultOperand, 1, 0, t, V, d, FALSE) :
             t \in {MO_VirtualRegister, MO_PCRelativeDisp},
             V \in Values \ {NullVal}, d \in BOOLEAN}
    \cup {SetValOperand(DefaultOperand, 1, 0, MO_CCRegister, 1, FALSE, TRUE)}

SubstImplicitChoices ==
    {ImplicitOperand(V, d, FALSE) : V \in Values, d \in BOOLEAN}

SeqsOf(S, lo, hi) == UNION {[1..n -> S] : n \in lo..hi}

InitSubst ==
    /\ pc = "live"
    /\ opCode = 1
    /\ numImplicitRefs \in 0..MaxImplicitRefs
    /\ operands \in {e \o m : e \in SeqsOf(SubstOperandChoices, 1, MaxOperands),
                              m \in SeqsOf(SubstImplicitChoices, numImplicitRefs,
                                           numImplicitRefs)}
    /\ regsUsed = {}
    /\ ret = Result("none", -1, FALSE, 0)
    /\ calls = 0

NextSubst ==
    \E a \in Values, b \in Values, d \in BOOLEAN :
        calls = 0 /\ substituteValue(a, b, d)

SpecSubst == InitSubst /\ [][NextSubst]_vars

\* the entries substituteValue(a, _, d) is to rewrite: explicit operands that
\* carry a symbolic reference, and implicit references, whose reference is a
\* and that are defs when d is set
ToRewrite(k, a, d) ==
    /\ k <= getNumOperands =>
          /\ operands[k].opType \in
                 {MO_VirtualRegister, MO_CCRegister, MO_PCRelativeDisp}
          /\ operands[k].value # NullVal
    /\ operands[k].value = a
    /\ ~d \/ DEFFLAG \in operands[k].flags

\* C1: substituteValue(a, b, d) rewrites to b exactly the entries to rewrite,
\* every other entry keeps its reference, the count returned is the number of
\* rewritten entries, and when a # b a second call with the same arguments
\* returns 0.
C1_SubstituteExactly ==
    [][ret'.op = "substituteValue" =>
          LET a == ret'.a
              b == ret'.b
              d == ret'.d
          IN  /\ Len(operands') = Len(operands)
              /\ \A k \in 1..Len(operands) :
                    operands'[k].value =
                        IF ToRewrite(k, a, d) THEN b ELSE operands[k].value
              /\ ret'.n = Cardinality({k \in 1..Len(operands) : ToRewrite(k, a, d)})
              /\ a # b =>
                    SubstResult(operands', numImplicitRefs', a, b, d).numSubst = 0]_vars

\* two operands and an implicit reference were all rewritten by one call
C1_Witness ==
    /\ ret.op = "substituteValue"
    /\ ret.d = FALSE
    /\ ret.a = 1 /\ ret.b = 2
    /\ ret.n = 3
    /\ getNumOperands = 2
    /\ numImplicitRefs = 1
    /\ \A k \in 1..3 : operands[k].value = 2
    /\ \E k \in 1..2 : opIsDef(operands[k])
    /\ \E k \in 1..2 : ~opIsDef(operands[k])

\* C2: substituteValue(a, null, d) leaves no entry that referenced a non-null
\* value referencing null.
C2_NeverCreatesNullRef ==
    [][(ret'.op = "substituteValue" /\ ret'.b = NullVal) =>
          \A k \in 1..Len(operands) :
              operands[k].value # NullVal => operands'[k].value # NullVal]_vars

\* C9: substituteValue changes referenced values only: the opcode, the number
\* of operands and of implicit references, regsUsed, and every entry's kind,
\* def/use flags, register and immediate are as before.
C9_SubstituteKeepsClassification ==
    [][ret'.op = "substituteValue" =>
          /\ opCode' = opCode
          /\ Len(operands') = Len(operands)
          /\ numImplicitRefs' = numImplicitRefs
          /\ regsUsed' = regsUsed
          /\ \A k \in 1..Len(operands) :
                /\ operands'[k].flags = operands[k].flags
                /\ DefUse(operands'[k]) = DefUse(operands[k])
                /\ operands'[k].opType = operands[k].opType
                /\ operands'[k].regNum = operands[k].regNum
                /\ operands'[k].immedVal = operands[k].immedVal]_vars

\* a use operand and a def operand were both rewritten and kept their class
C9_Witness ==
    /\ ret.op = "substituteValue"
    /\ ret.n >= 2
    /\ \E j \in ExplicitIdx, k \in ExplicitIdx :
          /\ operands[j].value = 2 /\ operands[k].value = 2
          /\ DefUse(operands[j]) = "Use" /\ DefUse(operands[k]) = "Def"

(***************************************************************************)
(* The two printers on instructions built by the constructor for a         *)
(* variable number of operands, the setters, the address-part markers and  *)
(* addImplicitRef.                                                         *)
(***************************************************************************)
markHi32(mo) == [mo EXCEPT !.flags = @ \cup {HIFLAG32}]
markLo32(mo) == [mo EXCEPT !.flags = @ \cup {LOFLAG32}]
markHi64(mo) == [mo EXCEPT !.flags = @ \cup {HIFLAG64}]
markLo64(mo) == [mo EXCEPT !.flags = @ \cup {LOFLAG64}]

RenderOperandChoices ==
    {DefaultOperand,
     setRegForValue(SetValOperand(DefaultOperand, 1, 0, MO_VirtualRegister, 1, FALSE, FALSE), 0),
     SetValOperand(DefaultOperand, 1, 0, MO_VirtualRegister, 2, TRUE, FALSE),
     SetValOperand(DefaultOperand, 1, 0, MO_VirtualRegister, 1, FALSE, TRUE),
     SetValOperand(DefaultOperand, 1, 0, MO_CCRegister, 1, TRUE, TRUE),
     setRegForValue(SetValOperand(DefaultOperand, 1, 0, MO_CCRegister, 2, FALSE, FALSE), 1),
     SetRegOperand(DefaultOperand, 1, 0, 0, FALSE),
     SetRegOperand(DefaultOperand, 1, 0, 1, TRUE),
     SetConstOperand(DefaultOperand, MO_SignExtendedImmed, -1),
     markHi32(SetConstOperand(DefaultOperand, MO_UnextendedImmed, -1)),
     markLo32(SetValOperand(DefaultOperand, 1, 0, MO_PCRelativeDisp, 1, FALSE, FALSE)),
     markHi64(SetValOperand(DefaultOperand, 1, 0, MO_PCRelativeDisp, 2, FALSE, FALSE)),
     markLo64(SetValOperand(DefaultOperand, 1, 0, MO_VirtualRegister, 2, FALSE, FALSE)),
     SetValOperand(DefaultOperand, 1, 0, MO_PCRelativeDisp, NullVal, FALSE, FALSE)}

RenderImplicitChoices ==
    {ImplicitOperand(1, FALSE, FALSE), ImplicitOperand(2, TRUE, FALSE),
     ImplicitOperand(NullVal, FALSE, TRUE), ImplicitOperand(1, TRUE, TRUE)}

InitRender ==
    /\ pc = "live"
    /\ opCode = 1
    /\ numImplicitRefs \in 0..MaxImplicitRefs
    /\ operands \in {e \o m : e \in SeqsOf(RenderOperandChoices, 1, MaxOperands),
                              m \in SeqsOf(RenderImplicitChoices, numImplicitRefs,
                                           numImplicitRefs)}
    /\ regsUsed = {operands[k].regNum : k \in 1..Len(operands)} \ {-1}
    /\ ret = Result("none", -1, FALSE, 0)
    /\ calls = 0

NextRender ==
    \/ \E MRI \in BOOLEAN, g \in BOOLEAN : print(MRI, g)
    \/ \E g \in BOOLEAN : output(g)

SpecRender == InitRender /\ [][NextRender]_vars

\* What a text says once register numbers and the opcode name are taken as
\* resolved: a register is REG n however it is written, the opcode is
\* OPCODE n, "*" and "<def>" are DEF, "**" and "<def&use>" are DEFUSE, the
\* implicit references follow IMPLICIT, with the tabs among them dropped.
RECURSIVE Content(_, _)
Content(txt, inImplicit) ==
    IF txt = <<>> THEN <<>>
    ELSE LET h == Head(txt)
             r == Tail(txt)
         IN  IF h[1] = "*"
             THEN IF r # <<>> /\ Head(r)[1] = "*"
                  THEN <<Tok("DEFUSE", 0)>> \o Content(Tail(r), inImplicit)
                  ELSE <<Tok("DEF", 0)>> \o Content(r, inImplicit)
             ELSE IF h[1] = "<def>"
             THEN <<Tok("DEF", 0)>> \o Content(r, inImplicit)
             ELSE IF h[1] = "<def&use>"
             THEN <<Tok("DEFUSE", 0)>> \o Content(r, inImplicit)
             ELSE IF h[1] \in {"%name", "%reg#", "%mreg()"}
             THEN <<Tok("REG", h[2])>> \o Content(r, inImplicit)
             ELSE IF h[1] \in {"TM.getName", "Descriptor.Name"}
             THEN <<Tok("OPCODE", h[2])>> \o Content(r, inImplicit)
             ELSE IF h[1] \in {"\tImplicitRefs: ", "\tImplicit: "}
             THEN <<Tok("IMPLICIT", 0)>> \o Content(r, TRUE)
             ELSE IF h[1] = "\t" /\ inImplicit
             THEN Content(r, inImplicit)
             ELSE <<h>> \o Content(r, inImplicit)

\* C10: for every instruction, the text of print(OS, TM) and the text of
\* operator<< say the same once register numbers and the opcode name are
\* taken as resolved (instructions whose printing reads a null value aside).
C10_PrintersAgree ==
    (pc = "live" /\ ret.op = "print" /\ ~ReadsNull(operands, numImplicitRefs)) =>
        Content(ret.text, FALSE) =
            Content(outputText(opCode, operands, numImplicitRefs, FALSE), FALSE)

\* the printers do agree on some instruction with operands and implicit refs
C10_AgreeSomewhere ==
    /\ pc = "live" /\ ret.op = "print" /\ numImplicitRefs > 0
    /\ ~ReadsNull(operands, numImplicitRefs)
    /\ Content(ret.text, FALSE) =
           Content(outputText(opCode, operands, numImplicitRefs, FALSE), FALSE)

====
